---- MODULE Spec2Model ----
(***************************************************************************)
(* Model of the two Streamlit programs of Automatic_Converter:             *)
(*   converter.py      detects the format of pasted text, parses it,       *)
(*                     validates it and offers an Excel download;          *)
(*   new_converter.py  parses text in a format the user selects and        *)
(*                     converts it to a selected output format.            *)
(* Each script run of main() is one action.  A text is a sequence of       *)
(* one-character strings, on which the string operations of the code are   *)
(* computed.  An input document is a text together with what the library   *)
(* calls json.loads, ET.fromstring, yaml.safe_load and pandas.read_csv     *)
(* return or raise on it (Catalogue).                                      *)
(***************************************************************************)
EXTENDS Integers, Sequences, FiniteSets, TLC

\* ------------------------------------------------------------------ values
\* Python values: None, a str, an int and a float (their str()), NaN, a dict
\* (ordered key/value pairs) and a list.
None == [k |-> "None"]

NaN == [k |-> "nan"]

Scalar(s) == [k |-> "scalar", s |-> s]

Integer(s) == [k |-> "int", s |-> s]

Float(s) == [k |-> "float", s |-> s]

Dict(pairs) == [k |-> "dict", items |-> pairs]

List(items) == [k |-> "list", items |-> items]

IsNone(v) == v.k = "None"

IsList(v) == v.k = "list"

IsDict(v) == v.k = "dict"

\* The outcome of a library call: a value, or an exception.
Returns(v) == [ok |-> TRUE, val |-> v, exc |-> ""]

Raises(e) == [ok |-> FALSE, val |-> None, exc |-> e]

\* An xml.etree Element: tag, text (NoText is Python's None) and children.
NoText == <<>>

Text(s) == <<s>>

Element(tag, text, children) == [tag |-> tag, text |-> text, children |-> children]

\* ------------------------------------------------------------- documents
\* The input documents: the text, and what json.loads, ET.fromstring,
\* yaml.safe_load, pd.read_csv(...).to_dict('records') with delimiter ','
\* and with delimiter '\t' do on it.
Catalogue ==
  <<
    \* document 1
    [text |-> <<>>,
     json |-> Raises("JSONDecodeError"),
     xml  |-> Raises("ParseError"),
     yaml |-> Returns(None),
     csv  |-> Raises("EmptyDataError"),
     tsv  |-> Raises("EmptyDataError")],
    \* document 2
    [text |-> <<"[", "{", "\"", "a", "\"", ":", "1", "}", "]">>,
     json |-> Returns(List(<<Dict(<<<<"a", Integer("1")>>>>)>>)),
     xml  |-> Raises("ParseError"),
     yaml |-> Returns(List(<<Dict(<<<<"a", Integer("1")>>>>)>>)),
     csv  |-> Returns(List(<<>>)),
     tsv  |-> Returns(List(<<>>))],
    \* document 3
    [text |-> <<"[", "]">>,
     json |-> Returns(List(<<>>)),
     xml  |-> Raises("ParseError"),
     yaml |-> Returns(List(<<>>)),
     csv  |-> Returns(List(<<>>)),
     tsv  |-> Returns(List(<<>>))],
    \* document 4
    [text |-> <<"[", "1", "]">>,
     json |-> Returns(List(<<Integer("1")>>)),
     xml  |-> Raises("ParseError"),
     yaml |-> Returns(List(<<Integer("1")>>)),
     csv  |-> Returns(List(<<>>)),
     tsv  |-> Returns(List(<<>>))],
    \* document 5
    [text |-> <<"[", "{", "\"", "a", "\"", ":", "1", "}", ",", "5", "]">>,
     json |-> Returns(List(<<Dict(<<<<"a", Integer("1")>>>>), Integer("5")>>)),
     xml  |-> Raises("ParseError"),
     yaml |-> Returns(List(<<Dict(<<<<"a", Integer("1")>>>>), Integer("5")>>)),
     csv  |-> Returns(List(<<>>)),
     tsv  |-> Returns(List(<<>>))],
    \* document 6
    [text |-> <<"{", "\"", "a", "\"", ":", "1", "}">>,
     json |-> Returns(Dict(<<<<"a", Integer("1")>>>>)),
     xml  |-> Raises("ParseError"),
     yaml |-> Returns(Dict(<<<<"a", Integer("1")>>>>)),
     csv  |-> Returns(List(<<>>)),
     tsv  |-> Returns(List(<<>>))],
    \* document 7
    [text |-> <<"5">>,
     json |-> Returns(Integer("5")),
     xml  |-> Raises("ParseError"),
     yaml |-> Returns(Integer("5")),
     csv  |-> Returns(List(<<>>)),
     tsv  |-> Returns(List(<<>>))],
    \* document 8
    [text |-> <<"n", "u", "l", "l">>,
     json |-> Returns(None),
     xml  |-> Raises("ParseError"),
     yaml |-> Returns(None),
     csv  |-> Returns(List(<<>>)),
     tsv  |-> Returns(List(<<>>))],
    \* document 9
    [text |-> <<"{", "a", ":", " ", "1", "}">>,
     json |-> Raises("JSONDecodeError"),
     xml  |-> Raises("ParseError"),
     yaml |-> Returns(Dict(<<<<"a", Integer("1")>>>>)),
     csv  |-> Returns(List(<<>>)),
     tsv  |-> Returns(List(<<>>))],
    \* document 10
    [text |-> <<"a", ",", "b", "\n", "1", ",", "2">>,
     json |-> Raises("JSONDecodeError"),
     xml  |-> Raises("ParseError"),
     yaml |-> Returns(Scalar("a,b 1,2")),
     csv  |-> Returns(List(<<Dict(<<<<"a", Integer("1")>>, <<"b", Integer("2")>>>>)>>)),
     tsv  |-> Returns(List(<<Dict(<<<<"a,b", Scalar("1,2")>>>>)>>))],
    \* document 11
    [text |-> <<"a", "\t", "b", "\n", "1", "\t", "2">>,
     json |-> Raises("JSONDecodeError"),
     xml  |-> Raises("ParseError"),
     yaml |-> Raises("YAMLError"),
     csv  |-> Returns(List(<<Dict(<<<<"a\tb", Scalar("1\t2")>>>>)>>)),
     tsv  |-> Returns(List(<<Dict(<<<<"a", Integer("1")>>, <<"b", Integer("2")>>>>)>>))],
    \* document 12
    [text |-> <<"a", ",", "b", "\n", "1", ",", "2", "\n", "3", ",", "4", ",", "5">>,
     json |-> Raises("JSONDecodeError"),
     xml  |-> Raises("ParseError"),
     yaml |-> Returns(Scalar("a,b 1,2 3,4,5")),
     csv  |-> Raises("ParserError"),
     tsv  |-> Returns(List(<<Dict(<<<<"a,b", Scalar("1,2")>>>>), Dict(<<<<"a,b", Scalar("3,4,5")>>>>)>>))],
    \* document 13
    [text |-> <<"<", "d", ">", "<", "r", ">", "<", "n", ">", "J", "<", "/", "n", ">", "<", "/", "r", ">", "<", "/", "d", ">">>,
     json |-> Raises("JSONDecodeError"),
     xml  |-> Returns(Element("d", NoText, <<Element("r", NoText, <<Element("n", Text("J"), <<>>)>>)>>)),
     yaml |-> Returns(Scalar("<d><r><n>J</n></r></d>")),
     csv  |-> Returns(List(<<>>)),
     tsv  |-> Returns(List(<<>>))],
    \* document 14
    [text |-> <<"-", " ", "a", ":", " ", "1">>,
     json |-> Raises("JSONDecodeError"),
     xml  |-> Raises("ParseError"),
     yaml |-> Returns(List(<<Dict(<<<<"a", Integer("1")>>>>)>>)),
     csv  |-> Returns(List(<<>>)),
     tsv  |-> Returns(List(<<>>))],
    \* document 15
    [text |-> <<"@", "\n", "b", "\n", "c", ",", "d", "\t", "e">>,
     json |-> Raises("JSONDecodeError"),
     xml  |-> Raises("ParseError"),
     yaml |-> Raises("YAMLError"),
     csv  |-> Raises("ParserError"),
     tsv  |-> Raises("ParserError")],
    \* document 16
    [text |-> <<"a", ",", "b">>,
     json |-> Raises("JSONDecodeError"),
     xml  |-> Raises("ParseError"),
     yaml |-> Returns(Scalar("a,b")),
     csv  |-> Returns(List(<<>>)),
     tsv  |-> Returns(List(<<>>))],
    \* document 17
    [text |-> <<"a", ":", " ", "1", ",", "\n", "b", ":", " ", "2">>,
     json |-> Raises("JSONDecodeError"),
     xml  |-> Raises("ParseError"),
     yaml |-> Returns(Dict(<<<<"a", Scalar("1,")>>, <<"b", Integer("2")>>>>)),
     csv  |-> Returns(List(<<Dict(<<<<"a: 1", Scalar("b: 2")>>, <<"Unnamed: 1", NaN>>>>)>>)),
     tsv  |-> Returns(List(<<Dict(<<<<"a: 1,", Scalar("b: 2")>>>>)>>))],
    \* document 18
    [text |-> <<"a", ":", " ", "b", ":", " ", ",", "\n", "1">>,
     json |-> Raises("JSONDecodeError"),
     xml  |-> Raises("ParseError"),
     yaml |-> Raises("YAMLError"),
     csv  |-> Returns(List(<<Dict(<<<<"a: b: ", Integer("1")>>, <<"Unnamed: 1", NaN>>>>)>>)),
     tsv  |-> Returns(List(<<Dict(<<<<"a: b: ,", Integer("1")>>>>)>>))],
    \* document 19
    [text |-> <<"[", "a", ",", "b", "]", "\n", "[", "1", ",", "2", "]">>,
     json |-> Raises("JSONDecodeError"),
     xml  |-> Raises("ParseError"),
     yaml |-> Raises("YAMLError"),
     csv  |-> Returns(List(<<Dict(<<<<"[a", Scalar("[1")>>, <<"b]", Scalar("2]")>>>>)>>)),
     tsv  |-> Returns(List(<<Dict(<<<<"[a,b]", Scalar("[1,2]")>>>>)>>))],
    \* document 20
    [text |-> <<"a", "\t", "b", ",", "c", "\n", "1">>,
     json |-> Raises("JSONDecodeError"),
     xml  |-> Raises("ParseError"),
     yaml |-> Raises("YAMLError"),
     csv  |-> Returns(List(<<Dict(<<<<"a\tb", Integer("1")>>, <<"c", NaN>>>>)>>)),
     tsv  |-> Returns(List(<<Dict(<<<<"a", Integer("1")>>, <<"b,c", NaN>>>>)>>))],
    \* document 21
    [text |-> <<"a", "\t", "b", "\t", "c", ",", "d", "\n", "1">>,
     json |-> Raises("JSONDecodeError"),
     xml  |-> Raises("ParseError"),
     yaml |-> Raises("YAMLError"),
     csv  |-> Returns(List(<<Dict(<<<<"a\tb\tc", Integer("1")>>, <<"d", NaN>>>>)>>)),
     tsv  |-> Returns(List(<<Dict(<<<<"a", Integer("1")>>, <<"b", NaN>>, <<"c,d", NaN>>>>)>>))],
    \* document 22
    [text |-> <<"a", "\n", "b">>,
     json |-> Raises("JSONDecodeError"),
     xml  |-> Raises("ParseError"),
     yaml |-> Returns(Scalar("a b")),
     csv  |-> Returns(List(<<Dict(<<<<"a", Scalar("b")>>>>)>>)),
     tsv  |-> Returns(List(<<Dict(<<<<"a", Scalar("b")>>>>)>>))],
    \* document 23
    [text |-> <<" ", "[", "]", " ">>,
     json |-> Returns(List(<<>>)),
     xml  |-> Raises("ParseError"),
     yaml |-> Returns(List(<<>>)),
     csv  |-> Returns(List(<<>>)),
     tsv  |-> Returns(List(<<>>))],
    \* document 24
    [text |-> <<"<", "a", ">">>,
     json |-> Raises("JSONDecodeError"),
     xml  |-> Raises("ParseError"),
     yaml |-> Returns(Scalar("<a>")),
     csv  |-> Returns(List(<<>>)),
     tsv  |-> Returns(List(<<>>))],
    \* document 25
    [text |-> <<"<", "a", ">", "x", "<", "/", "a", ">">>,
     json |-> Raises("JSONDecodeError"),
     xml  |-> Returns(Element("a", Text("x"), <<>>)),
     yaml |-> Returns(Scalar("<a>x</a>")),
     csv  |-> Returns(List(<<>>)),
     tsv  |-> Returns(List(<<>>))],
    \* document 26
    [text |-> <<"<", "a", ">", ",", "\n", "<", "b", ">">>,
     json |-> Raises("JSONDecodeError"),
     xml  |-> Raises("ParseError"),
     yaml |-> Returns(Scalar("<a>, <b>")),
     csv  |-> Returns(List(<<Dict(<<<<"<a>", Scalar("<b>")>>, <<"Unnamed: 1", NaN>>>>)>>)),
     tsv  |-> Returns(List(<<Dict(<<<<"<a>,", Scalar("<b>")>>>>)>>))],
    \* document 27
    [text |-> <<"a", ",", "b", ",", "c", "\n", "1", ",", "2", ",", "3">>,
     json |-> Raises("JSONDecodeError"),
     xml  |-> Raises("ParseError"),
     yaml |-> Returns(Scalar("a,b,c 1,2,3")),
     csv  |-> Returns(List(<<Dict(<<<<"a", Integer("1")>>, <<"b", Integer("2")>>, <<"c", Integer("3")>>>>)>>)),
     tsv  |-> Returns(List(<<Dict(<<<<"a,b,c", Scalar("1,2,3")>>>>)>>))],
    \* document 28
    [text |-> <<"a", "\t", "b", "\t", "c", "\n", "1", "\t", "2", "\t", "3">>,
     json |-> Raises("JSONDecodeError"),
     xml  |-> Raises("ParseError"),
     yaml |-> Raises("YAMLError"),
     csv  |-> Returns(List(<<Dict(<<<<"a\tb\tc", Scalar("1\t2\t3")>>>>)>>)),
     tsv  |-> Returns(List(<<Dict(<<<<"a", Integer("1")>>, <<"b", Integer("2")>>, <<"c", Integer("3")>>>>)>>))],
    \* document 29
    [text |-> <<"a", ",", "b", "\n", "1", ",", "2", ",", "3">>,
     json |-> Raises("JSONDecodeError"),
     xml  |-> Raises("ParseError"),
     yaml |-> Returns(Scalar("a,b 1,2,3")),
     csv  |-> Returns(List(<<Dict(<<<<"a", Integer("2")>>, <<"b", Integer("3")>>>>)>>)),
     tsv  |-> Returns(List(<<Dict(<<<<"a,b", Scalar("1,2,3")>>>>)>>))],
    \* document 30
    [text |-> <<"a", "\n", "1", "\n", "1", "\n", "1", "\n", "1", "\n", "1", "\n", "1", "\n", "1", "\n", "1", "\n", "1", "\n", "1">>,
     json |-> Raises("JSONDecodeError"),
     xml  |-> Raises("ParseError"),
     yaml |-> Returns(Scalar("a 1 1 1 1 1 1 1 1 1 1")),
     csv  |-> Returns(List(<<Dict(<<<<"a", Integer("1")>>>>), Dict(<<<<"a", Integer("1")>>>>), Dict(<<<<"a", Integer("1")>>>>), Dict(<<<<"a", Integer("1")>>>>), Dict(<<<<"a", Integer("1")>>>>), Dict(<<<<"a", Integer("1")>>>>), Dict(<<<<"a", Integer("1")>>>>), Dict(<<<<"a", Integer("1")>>>>), Dict(<<<<"a", Integer("1")>>>>), Dict(<<<<"a", Integer("1")>>>>)>>)),
     tsv  |-> Returns(List(<<Dict(<<<<"a", Integer("1")>>>>), Dict(<<<<"a", Integer("1")>>>>), Dict(<<<<"a", Integer("1")>>>>), Dict(<<<<"a", Integer("1")>>>>), Dict(<<<<"a", Integer("1")>>>>), Dict(<<<<"a", Integer("1")>>>>), Dict(<<<<"a", Integer("1")>>>>), Dict(<<<<"a", Integer("1")>>>>), Dict(<<<<"a", Integer("1")>>>>), Dict(<<<<"a", Integer("1")>>>>)>>))],
    \* document 31
    [text |-> <<"[", "{", "\"", "a", "\"", ":", "1", "}", ",", "{", "\"", "a", "\"", ":", "1", "}", ",", "{", "\"", "a", "\"", ":", "1", "}", ",", "{", "\"", "a", "\"", ":", "1", "}", ",", "{", "\"", "a", "\"", ":", "1", "}", ",", "{", "\"", "a", "\"", ":", "1", "}", ",", "{", "\"", "a", "\"", ":", "1", "}", ",", "{", "\"", "a", "\"", ":", "1", "}", ",", "{", "\"", "a", "\"", ":", "1", "}", ",", "{", "\"", "a", "\"", ":", "1", "}", "]">>,
     json |-> Returns(List(<<Dict(<<<<"a", Integer("1")>>>>), Dict(<<<<"a", Integer("1")>>>>), Dict(<<<<"a", Integer("1")>>>>), Dict(<<<<"a", Integer("1")>>>>), Dict(<<<<"a", Integer("1")>>>>), Dict(<<<<"a", Integer("1")>>>>), Dict(<<<<"a", Integer("1")>>>>), Dict(<<<<"a", Integer("1")>>>>), Dict(<<<<"a", Integer("1")>>>>), Dict(<<<<"a", Integer("1")>>>>)>>)),
     xml  |-> Raises("ParseError"),
     yaml |-> Returns(List(<<Dict(<<<<"a", Integer("1")>>>>), Dict(<<<<"a", Integer("1")>>>>), Dict(<<<<"a", Integer("1")>>>>), Dict(<<<<"a", Integer("1")>>>>), Dict(<<<<"a", Integer("1")>>>>), Dict(<<<<"a", Integer("1")>>>>), Dict(<<<<"a", Integer("1")>>>>), Dict(<<<<"a", Integer("1")>>>>), Dict(<<<<"a", Integer("1")>>>>), Dict(<<<<"a", Integer("1")>>>>)>>)),
     csv  |-> Returns(List(<<>>)),
     tsv  |-> Returns(List(<<>>))],
    \* document 32
    [text |-> <<"[", "{", "\"", "a", "\"", ":", "1", ",", "\"", "b", "\"", ":", "2", "}", ",", "{", "\"", "a", "\"", ":", "3", "}", "]">>,
     json |-> Returns(List(<<Dict(<<<<"a", Integer("1")>>, <<"b", Integer("2")>>>>), Dict(<<<<"a", Integer("3")>>>>)>>)),
     xml  |-> Raises("ParseError"),
     yaml |-> Returns(List(<<Dict(<<<<"a", Integer("1")>>, <<"b", Integer("2")>>>>), Dict(<<<<"a", Integer("3")>>>>)>>)),
     csv  |-> Returns(List(<<>>)),
     tsv  |-> Returns(List(<<>>))],
    \* document 33
    [text |-> <<"[", "{", "\"", "b", "\"", ":", "1", ",", "\"", "a", "\"", ":", "2", "}", ",", "{", "\"", "a", "\"", ":", "3", ",", "\"", "b", "\"", ":", "4", "}", "]">>,
     json |-> Returns(List(<<Dict(<<<<"b", Integer("1")>>, <<"a", Integer("2")>>>>), Dict(<<<<"a", Integer("3")>>, <<"b", Integer("4")>>>>)>>)),
     xml  |-> Raises("ParseError"),
     yaml |-> Returns(List(<<Dict(<<<<"b", Integer("1")>>, <<"a", Integer("2")>>>>), Dict(<<<<"a", Integer("3")>>, <<"b", Integer("4")>>>>)>>)),
     csv  |-> Returns(List(<<>>)),
     tsv  |-> Returns(List(<<>>))],
    \* document 34
    [text |-> <<"<", "d", "a", "t", "a", ">", "<", "r", "e", "c", "o", "r", "d", ">", "<", "n", "a", "m", "e", ">", "J", "o", "h", "n", "<", "/", "n", "a", "m", "e", ">", "<", "a", "g", "e", ">", "3", "0", "<", "/", "a", "g", "e", ">", "<", "/", "r", "e", "c", "o", "r", "d", ">", "<", "/", "d", "a", "t", "a", ">">>,
     json |-> Raises("JSONDecodeError"),
     xml  |-> Returns(Element("data", NoText, <<Element("record", NoText, <<Element("name", Text("John"), <<>>), Element("age", Text("30"), <<>>)>>)>>)),
     yaml |-> Returns(Scalar("<data><record><name>John</name><age>30</age></record></data>")),
     csv  |-> Returns(List(<<>>)),
     tsv  |-> Returns(List(<<>>))],
    \* document 35
    [text |-> <<"<", "d", ">", "<", "r", ">", "<", "n", ">", "1", "<", "/", "n", ">", "<", "n", ">", "2", "<", "/", "n", ">", "<", "/", "r", ">", "<", "s", "/", ">", "<", "/", "d", ">">>,
     json |-> Raises("JSONDecodeError"),
     xml  |-> Returns(Element("d", NoText, <<Element("r", NoText, <<Element("n", Text("1"), <<>>), Element("n", Text("2"), <<>>)>>), Element("s", NoText, <<>>)>>)),
     yaml |-> Returns(Scalar("<d><r><n>1</n><n>2</n></r><s/></d>")),
     csv  |-> Returns(List(<<>>)),
     tsv  |-> Returns(List(<<>>))],
    \* document 36
    [text |-> <<"\"", "h", "e", "l", "l", "o", "\"">>,
     json |-> Returns(Scalar("hello")),
     xml  |-> Raises("ParseError"),
     yaml |-> Returns(Scalar("hello")),
     csv  |-> Returns(List(<<>>)),
     tsv  |-> Returns(List(<<>>))]
  >>

Documents == {Catalogue[i] : i \in DOMAIN Catalogue}

EmptyDocument == Catalogue[1]

\* The keys that occur, as sorted() orders them.
KeysSorted ==
  <<"<a>", "<a>,", "Unnamed: 1", "[a", "[a,b]", "a", "a\tb", "a\tb\tc", "a,b", "a,b,c", "a: 1", "a: 1,", "a: b: ", "a: b: ,", "age", "b", "b,c", "b]", "c", "c,d", "d", "data", "n", "name", "r", "record", "s">>

\* str(float(n)) of the integers that occur.
FloatStr(s) ==
  CASE s = "1" -> "1.0"
    [] s = "2" -> "2.0"
    [] s = "3" -> "3.0"
    [] s = "4" -> "4.0"
    [] s = "5" -> "5.0"

\* --------------------------------------------------------- str operations
IsSpace(c) == c \in {" ", "\t", "\n", "\r"}

RECURSIVE lstrip(_)
lstrip(s) == IF s = <<>> THEN s ELSE IF IsSpace(Head(s)) THEN lstrip(Tail(s)) ELSE s

RECURSIVE rstrip(_)
rstrip(s) ==
  IF s = <<>> THEN s
  ELSE IF IsSpace(s[Len(s)]) THEN rstrip(SubSeq(s, 1, Len(s) - 1)) ELSE s

strip(s) == rstrip(lstrip(s))

startswith(s, c) == Len(s) > 0 /\ s[1] = c

endswith(s, c) == Len(s) > 0 /\ s[Len(s)] = c

count(s, c) == Cardinality({i \in DOMAIN s : s[i] = c})

contains(s, sub) ==
  \E i \in 1..(Len(s) - Len(sub) + 1) : SubSeq(s, i, i + Len(sub) - 1) = sub

\* s.split('\n')[0] and len(s.split('\n'))
first_line(s) ==
  IF count(s, "\n") = 0 THEN s
  ELSE SubSeq(s, 1, (CHOOSE i \in DOMAIN s :
                       s[i] = "\n" /\ \A j \in 1..(i - 1) : s[j] # "\n") - 1)

line_count(s) == count(s, "\n") + 1

\* content.strip(): the libraries ignore surrounding whitespace on every
\* catalogued document, so the stripped document keeps its results.
Stripped(content) == [content EXCEPT !.text = strip(content.text)]

\* ---------------------------------------------------------- library calls
json_loads(content) == content.json

ET_fromstring(content) == content.xml

yaml_safe_load(content) == content.yaml

read_csv(content, delimiter) == IF delimiter = "," THEN content.csv ELSE content.tsv

\* ------------------------------------------------------------------ errors
\* A parser's error string: the fixed message and the exception it quotes.
NoError == [msg |-> "None", exc |-> ""]

Error(msg, exc) == [msg |-> msg, exc |-> exc]

\* A (data, error) pair as the parsers return it.
Pair(data, error) == [data |-> data, error |-> error]

\* ----------------------------------------------------- converter.py parsers
parse_json_file(file_content) ==
  LET r == json_loads(file_content)
  IN IF r.ok THEN Pair(r.val, NoError)
     ELSE Pair(None, Error("Invalid JSON format", r.exc))

parse_csv_file(file_content, delimiter) ==
  LET r == read_csv(file_content, delimiter)
  IN IF r.ok THEN Pair(r.val, NoError)
     ELSE Pair(None, Error("Error parsing CSV", r.exc))

parse_tsv_file(file_content) == parse_csv_file(file_content, "\t")

\* text or ""
OrEmpty(text) == IF text = NoText \/ text = Text("") THEN "" ELSE text[1]

\* record[key] = value on a dict's ordered pairs
SetItem(pairs, key, value) ==
  IF \E i \in DOMAIN pairs : pairs[i][1] = key
  THEN [i \in DOMAIN pairs |-> IF pairs[i][1] = key THEN <<key, value>> ELSE pairs[i]]
  ELSE Append(pairs, <<key, value>>)

RECURSIVE FieldsOf(_, _)
FieldsOf(elements, pairs) ==
  IF elements = <<>> THEN pairs
  ELSE FieldsOf(Tail(elements),
                SetItem(pairs, Head(elements).tag, Scalar(OrEmpty(Head(elements).text))))

\* The record of a child taken from its own tag and text, children or not.
RecordOfChildOwnText(child) ==
  Dict(<<<<child.tag, Scalar(OrEmpty(child.text))>>>>)

\* The record built from one child of the root.
RecordOfChild(child) ==
  IF Len(child.children) > 0
  THEN Dict(FieldsOf(child.children, <<>>))
  ELSE Dict(<<<<child.tag, Scalar(OrEmpty(child.text))>>>>)

RecordsOfRoot(root) ==
  IF Len(root.children) > 0
  THEN List([i \in DOMAIN root.children |-> RecordOfChild(root.children[i])])
  ELSE List(<<Dict(FieldsOf(root.children, <<>>))>>)

parse_xml_file(file_content) ==
  LET r == ET_fromstring(file_content)
  IN IF r.ok THEN Pair(RecordsOfRoot(r.val), NoError)
     ELSE Pair(None, Error("Invalid XML format", r.exc))

parse_yaml_file(file_content) ==
  LET r == yaml_safe_load(file_content)
  IN IF ~r.ok THEN Pair(None, Error("Invalid YAML format", r.exc))
     ELSE IF IsList(r.val) THEN Pair(r.val, NoError)
     ELSE IF IsDict(r.val) THEN Pair(List(<<r.val>>), NoError)
     ELSE Pair(None, Error("YAML must contain a list of objects or a single object", ""))

\* ------------------------------------------------- converter.py: detector
\* The steps of detect_format_from_content: the surface test of each step
\* and whether the parse it then attempts succeeds.
JsonSurface(c) ==
  \/ startswith(c, "[") /\ endswith(c, "]")
  \/ startswith(c, "{") /\ endswith(c, "}")

XmlSurface(c) == startswith(c, "<") /\ endswith(c, ">")

YamlSurface(c) ==
  \/ contains(c, <<"-", " ">>) /\ contains(c, <<":">>)
  \/ count(c, ":") > count(c, ",") /\ contains(c, <<"\n">>)

\* The CSV/TSV step answering TSV on any tab, without comparing the counts.
DelimiterStepTabsFirst(c) ==
  IF line_count(c) > 1
  THEN IF count(first_line(c), "\t") > 0 THEN "TSV"
       ELSE IF count(first_line(c), ",") > 0 THEN "CSV"
       ELSE "Unknown"
  ELSE "Unknown"

\* The CSV/TSV step on stripped content.
DelimiterStep(c) ==
  LET first == first_line(c)
      comma_count == count(first, ",")
      tab_count == count(first, "\t")
  IN IF line_count(c) > 1
     THEN IF tab_count > comma_count /\ tab_count > 0 THEN "TSV"
          ELSE IF comma_count > 0 THEN "CSV"
          ELSE "Unknown"
     ELSE "Unknown"

\* The delimiter step placed before the YAML step.
DetectedDelimiterFirst(c, json_ok, xml_ok, yaml_ok) ==
  [tag |-> IF json_ok THEN "JSON"
           ELSE IF xml_ok THEN "XML"
           ELSE IF DelimiterStep(c) # "Unknown" THEN DelimiterStep(c)
           ELSE IF yaml_ok THEN "YAML"
           ELSE "Unknown",
   parses |-> (IF JsonSurface(c) THEN <<[format |-> "JSON", ok |-> json_ok]>> ELSE <<>>)
              \o (IF ~json_ok /\ XmlSurface(c)
                  THEN <<[format |-> "XML", ok |-> xml_ok]>> ELSE <<>>)
              \o (IF ~json_ok /\ ~xml_ok /\ DelimiterStep(c) = "Unknown" /\ YamlSurface(c)
                  THEN <<[format |-> "YAML", ok |-> yaml_ok]>> ELSE <<>>)]

\* The YAML step answering on its surface test, whatever the parse did.
DetectedYamlUnparsed(c, json_ok, xml_ok, yaml_ok) ==
  [tag |-> IF json_ok THEN "JSON"
           ELSE IF xml_ok THEN "XML"
           ELSE IF YamlSurface(c) THEN "YAML"
           ELSE DelimiterStep(c),
   parses |-> (IF JsonSurface(c) THEN <<[format |-> "JSON", ok |-> json_ok]>> ELSE <<>>)
              \o (IF ~json_ok /\ XmlSurface(c)
                  THEN <<[format |-> "XML", ok |-> xml_ok]>> ELSE <<>>)
              \o (IF ~json_ok /\ ~xml_ok /\ YamlSurface(c)
                  THEN <<[format |-> "YAML", ok |-> yaml_ok]>> ELSE <<>>)]

\* A failed parse attempt ending the detection with Unknown.
DetectedStopsOnFailure(c, json_ok, xml_ok, yaml_ok) ==
  [tag |-> IF json_ok THEN "JSON"
           ELSE IF JsonSurface(c) THEN "Unknown"
           ELSE IF xml_ok THEN "XML"
           ELSE IF XmlSurface(c) THEN "Unknown"
           ELSE IF yaml_ok THEN "YAML"
           ELSE IF YamlSurface(c) THEN "Unknown"
           ELSE DelimiterStep(c),
   parses |-> (IF JsonSurface(c) THEN <<[format |-> "JSON", ok |-> json_ok]>> ELSE <<>>)
              \o (IF ~JsonSurface(c) /\ XmlSurface(c)
                  THEN <<[format |-> "XML", ok |-> xml_ok]>> ELSE <<>>)
              \o (IF ~JsonSurface(c) /\ ~XmlSurface(c) /\ YamlSurface(c)
                  THEN <<[format |-> "YAML", ok |-> yaml_ok]>> ELSE <<>>)]

\* The tag returned and the parses attempted on the way, in order, from the
\* outcome of each step's try block.
Detected(c, json_ok, xml_ok, yaml_ok) ==
  [tag |-> IF json_ok THEN "JSON"
           ELSE IF xml_ok THEN "XML"
           ELSE IF yaml_ok THEN "YAML"
           ELSE DelimiterStep(c),
   parses |-> (IF JsonSurface(c) THEN <<[format |-> "JSON", ok |-> json_ok]>> ELSE <<>>)
              \o (IF ~json_ok /\ XmlSurface(c)
                  THEN <<[format |-> "XML", ok |-> xml_ok]>> ELSE <<>>)
              \o (IF ~json_ok /\ ~xml_ok /\ YamlSurface(c)
                  THEN <<[format |-> "YAML", ok |-> yaml_ok]>> ELSE <<>>)]

DetectStripped(c) ==
  Detected(c.text,
           JsonSurface(c.text) /\ json_loads(c).ok,
           XmlSurface(c.text) /\ ET_fromstring(c).ok,
           YamlSurface(c.text) /\ yaml_safe_load(c).ok)

detect_format_from_content(content) == DetectStripped(Stripped(content))

\* ------------------------------------------------------------ validation
validate_data(data) ==
  IF ~IsList(data)
  THEN [is_valid |-> FALSE, message |-> "Data must be an array/list of objects"]
  ELSE IF Len(data.items) = 0
  THEN [is_valid |-> FALSE, message |-> "Data array is empty"]
  ELSE IF ~IsDict(data.items[1])
  THEN [is_valid |-> FALSE, message |-> "Data must contain objects/dictionaries"]
  ELSE [is_valid |-> TRUE, message |-> "Data is valid"]

\* ------------------------------------------------------------- DataFrame
\* pd.DataFrame(list of dicts): the columns are the keys in first-seen
\* order, a missing field is NaN; an element without keys() raises.
RECURSIVE AddKeys(_, _)
AddKeys(columns, pairs) ==
  IF pairs = <<>> THEN columns
  ELSE AddKeys(IF \E i \in DOMAIN columns : columns[i] = Head(pairs)[1]
               THEN columns ELSE Append(columns, Head(pairs)[1]),
               Tail(pairs))

RECURSIVE ColumnsOf(_, _)
ColumnsOf(records, columns) ==
  IF records = <<>> THEN columns
  ELSE ColumnsOf(Tail(records), AddKeys(columns, Head(records).items))

Cell(record, column) ==
  IF \E i \in DOMAIN record.items : record.items[i][1] = column
  THEN record.items[CHOOSE i \in DOMAIN record.items : record.items[i][1] = column][2]
  ELSE NaN

NoFrame == [k |-> "None", columns |-> <<>>, rows |-> <<>>]

\* A column of ints with a missing value is a float64 column.
IsFloatColumn(cells) ==
  /\ \E i \in DOMAIN cells : cells[i].k = "nan"
  /\ \E i \in DOMAIN cells : cells[i].k = "int"
  /\ \A i \in DOMAIN cells : cells[i].k \in {"nan", "int", "float"}

AsType(cells) ==
  IF IsFloatColumn(cells)
  THEN [i \in DOMAIN cells |->
          IF cells[i].k = "int" THEN Float(FloatStr(cells[i].s)) ELSE cells[i]]
  ELSE cells

Column(records, column) ==
  AsType([i \in DOMAIN records |-> Cell(records[i], column)])

Frame(records, columns) ==
  [k |-> "DataFrame",
   columns |-> columns,
   rows |-> [i \in DOMAIN records |->
               [j \in DOMAIN columns |-> Column(records, columns[j])[i]]]]

DataFrame(data) ==
  IF \E i \in DOMAIN data.items : ~IsDict(data.items[i])
  THEN Raises("AttributeError")
  ELSE Returns(Frame(data.items, ColumnsOf(data.items, <<>>)))

len(frame) == Len(frame.rows)

\* ---------------------------------------------------------------- slider
\* st.slider(label, min_value, max_value, value) raises unless
\* min_value <= value <= max_value.
SliderMin == 5

SliderValue == 10

slider_raises(min_value, max_value, value) == ~(min_value <= value /\ value <= max_value)

Min(a, b) == IF a < b THEN a ELSE b

\* what st.info / st.warning / st.success / st.error / st.markdown show
Shown(st, msg, arg) == [st |-> st, msg |-> msg, arg |-> arg]

\* ------------------------------------------ converter.py main, Paste Data
\* The parsers list with YAML moved up.
FormatsYamlSecond == <<"JSON", "YAML", "CSV", "TSV", "XML">>

\* The parsers list: the order in which the formats are tried.
Formats == <<"JSON", "CSV", "TSV", "XML", "YAML">>

\* parser(data_text) for the parser of a format
parse_file(format, data_text) ==
  CASE format = "JSON" -> parse_json_file(data_text)
    [] format = "CSV" -> parse_csv_file(data_text, ",")
    [] format = "TSV" -> parse_tsv_file(data_text)
    [] format = "XML" -> parse_xml_file(data_text)
    [] format = "YAML" -> parse_yaml_file(data_text)

Call(format, r) == [format |-> format, data |-> r.data, error |-> r.error]

Parsed(r, calls) == [data |-> r.data, error |-> r.error, calls |-> calls]

\* The loop over parsers: try_all_formats runs the parser of Formats[i],
\* loop_step decides on its result r whether the loop goes on.
RECURSIVE try_all_formats(_, _, _)
RECURSIVE loop_step(_, _, _, _)
\* The loop going on past a parser whose result fails validation.
loop_step_until_valid(data_text, i, calls, r) ==
  IF (~IsNone(r.data) /\ validate_data(r.data).is_valid) \/ i = Len(Formats)
  THEN Parsed(r, Append(calls, Call(Formats[i], r)))
  ELSE try_all_formats(data_text, i + 1, Append(calls, Call(Formats[i], r)))

\* data, error = parser(data_text); if data is not None: break
loop_step(data_text, i, calls, r) ==
  IF ~IsNone(r.data) \/ i = Len(Formats)
  THEN Parsed(r, Append(calls, Call(Formats[i], r)))
  ELSE try_all_formats(data_text, i + 1, Append(calls, Call(Formats[i], r)))

try_all_formats(data_text, i, calls) ==
  loop_step(data_text, i, calls, parse_file(Formats[i], data_text))

\* The detected format's parser first, then, when it fails, all of them.
parse_detected_then_others(detected_format, data_text) ==
  IF detected_format = "Unknown"
        \/ IsNone(parse_file(detected_format, data_text).data)
  THEN try_all_formats(data_text, 1,
                       IF detected_format = "Unknown" THEN <<>>
                       ELSE <<Call(detected_format,
                                   parse_file(detected_format, data_text))>>)
  ELSE Parsed(parse_file(detected_format, data_text),
              <<Call(detected_format, parse_file(detected_format, data_text))>>)

\* The branch on detected_format.
parse_detected(detected_format, data_text) ==
  IF detected_format = "Unknown"
  THEN try_all_formats(data_text, 1, <<>>)
  ELSE Parsed(parse_file(detected_format, data_text),
              <<Call(detected_format, parse_file(detected_format, data_text))>>)

\* What the paste branch displays and leaves in data and error.
paste_outcome(d, p) ==
  [detected |-> d.tag, parses |-> d.parses, data |-> p.data, error |-> p.error,
   calls |-> p.calls,
   shown |-> (IF d.tag # "Unknown"
              THEN <<Shown("info", "Detected format", d.tag)>>
              ELSE <<Shown("warning", "Unable to detect format automatically", "")>>)
             \o (IF d.tag = "Unknown" /\ ~IsNone(p.data)
                 THEN <<Shown("info", "Successfully parsed as",
                              p.calls[Len(p.calls)].format)>>
                 ELSE <<>>)
             \o (IF ~IsNone(p.data)
                 THEN <<Shown("success", "Data parsed successfully!", "")>>
                 ELSE <<Shown("error", p.error.msg, p.error.exc)>>)]

paste_detected(d, data_text) == paste_outcome(d, parse_detected(d.tag, data_text))

\* The "Paste Data" branch: detection, then the detected format's parser
\* or all of them.
paste_data(data_text) ==
  IF strip(data_text.text) = <<>>
  THEN [detected |-> "", parses |-> <<>>, data |-> None, error |-> NoError,
        calls |-> <<>>, shown |-> <<>>]
  ELSE paste_detected(detect_format_from_content(data_text), data_text)

\* "Process data": what validation and the DataFrame leave in the session.
Processed(processed_data, frame, is_valid, raised, shown) ==
  [processed_data |-> processed_data, df |-> frame, is_valid |-> is_valid,
   raised |-> raised, shown |-> shown]

\* pd.DataFrame(data) raising ends the run, processed_data already stored.
store_frame(data, session, frame) ==
  IF frame.ok
  THEN Processed(data, frame.val, TRUE, "",
                 <<Shown("success-box", "Data processed successfully!", "")>>)
  ELSE Processed(data, session.df, TRUE, frame.exc, <<>>)

store_valid(data, session, v) ==
  IF v.is_valid
  THEN store_frame(data, session, DataFrame(data))
  ELSE Processed(session.processed_data, session.df, FALSE, "",
                 <<Shown("error-box", v.message, "")>>)

process_data(data, session) ==
  IF IsNone(data)
  THEN Processed(session.processed_data, session.df, FALSE, "", <<>>)
  ELSE store_valid(data, session, validate_data(data))

create_excel_file(frame) == [k |-> "xlsx", header |-> frame.columns, rows |-> frame.rows]

NoExcel == [k |-> "None", header |-> <<>>, rows |-> <<>>]

PreviewCap == 100

\* "Data preview and download section": the slider, then the Generate button.
download_section(s, clicked, session) ==
  IF s.raised # "" \/ s.df.k = "None"
  THEN [raised |-> s.raised, button |-> FALSE, excel_data |-> session.excel_data,
        shown |-> <<>>]
  ELSE IF slider_raises(SliderMin, Min(PreviewCap, len(s.df)), SliderValue)
  THEN [raised |-> "StreamlitAPIException", button |-> FALSE,
        excel_data |-> session.excel_data, shown |-> <<>>]
  ELSE IF clicked
  THEN [raised |-> "", button |-> TRUE, excel_data |-> create_excel_file(s.df),
        shown |-> <<Shown("success", "Excel file generated successfully!", "")>>]
  ELSE [raised |-> "", button |-> TRUE, excel_data |-> session.excel_data,
        shown |-> <<>>]

converter_result(data_text, p, s, d) ==
  [data_text |-> data_text,
   detected_format |-> p.detected,
   detector_parses |-> p.parses,
   parser_calls |-> p.calls,
   data |-> p.data,
   error |-> p.error,
   is_valid |-> s.is_valid,
   shown |-> p.shown \o s.shown \o d.shown,
   raised |-> d.raised,
   processed_data |-> s.processed_data,
   df |-> s.df,
   excel_data |-> d.excel_data,
   button |-> d.button,
   download_button |-> d.button /\ d.excel_data.k # "None"]

converter_processed(data_text, clicked, session, p, s) ==
  converter_result(data_text, p, s, download_section(s, clicked, session))

converter_parsed(data_text, clicked, session, p) ==
  converter_processed(data_text, clicked, session, p, process_data(p.data, session))

\* One script run of converter.py's main() with the text area holding
\* data_text and the Generate button clicked or not, from the session given.
converter_main(data_text, clicked, session) ==
  converter_parsed(data_text, clicked, session, paste_data(data_text))

\* ------------------------------------------------ new_converter.py parsers
parse_json_data(content) ==
  LET r == json_loads(content)
  IN IF r.ok THEN Pair(r.val, NoError)
     ELSE Pair(None, Error("Invalid JSON format", r.exc))

parse_csv_data(content, delimiter) ==
  LET r == read_csv(content, delimiter)
  IN IF r.ok THEN Pair(r.val, NoError)
     ELSE Pair(None, Error("Error parsing CSV", r.exc))

parse_tsv_data(content) == parse_csv_data(content, "\t")

parse_xml_data(content) ==
  LET r == ET_fromstring(content)
  IN IF r.ok THEN Pair(RecordsOfRoot(r.val), NoError)
     ELSE Pair(None, Error("Invalid XML format", r.exc))

\* isinstance(data, list) and len(data) > 0 and isinstance(data[0], dict)
is_list_of_objects(data) ==
  IsList(data) /\ Len(data.items) > 0 /\ IsDict(data.items[1])

\* A decoded value of an unusable shape reported as malformed YAML.
parse_yaml_data_shape_as_syntax(content) ==
  LET r == yaml_safe_load(content)
  IN IF ~r.ok THEN Pair(None, Error("Invalid YAML format", r.exc))
     ELSE IF IsList(r.val) /\ is_list_of_objects(r.val) THEN Pair(r.val, NoError)
     ELSE IF IsDict(r.val) THEN Pair(List(<<r.val>>), NoError)
     ELSE Pair(None, Error("Invalid YAML format", "YAMLError"))

parse_yaml_data(content) ==
  LET r == yaml_safe_load(content)
  IN IF ~r.ok THEN Pair(None, Error("Invalid YAML format", r.exc))
     ELSE IF IsList(r.val) THEN Pair(r.val, NoError)
     ELSE IF IsDict(r.val) THEN Pair(List(<<r.val>>), NoError)
     ELSE Pair(None, Error("YAML must contain a list of objects or a single object", ""))

InputFormats == {"JSON", "CSV", "TSV", "XML", "YAML"}

parse_data(format, content) ==
  CASE format = "JSON" -> parse_json_data(content)
    [] format = "CSV" -> parse_csv_data(content, ",")
    [] format = "TSV" -> parse_tsv_data(content)
    [] format = "XML" -> parse_xml_data(content)
    [] format = "YAML" -> parse_yaml_data(content)

\* The selected parser, and after its failure every other parser in turn.
RECURSIVE fallback_from(_, _, _)
fallback_step(content, i, calls, r) ==
  IF ~IsNone(r.data) \/ i = Len(Formats)
  THEN Parsed(r, Append(calls, Call(Formats[i], r)))
  ELSE fallback_from(content, i + 1, Append(calls, Call(Formats[i], r)))

fallback_from(content, i, calls) ==
  fallback_step(content, i, calls, parse_data(Formats[i], content))

process_data_with_fallback(content, input_format) ==
  IF IsNone(parse_data(input_format, content).data)
  THEN fallback_from(content, 1, <<Call(input_format, parse_data(input_format, content))>>)
  ELSE Parsed(parse_data(input_format, content),
              <<Call(input_format, parse_data(input_format, content))>>)

\* The (data, error) returned, and the parsers called, in order.
process_data_with_format(content, input_format) ==
  IF input_format \in InputFormats
  THEN Parsed(parse_data(input_format, content),
              <<Call(input_format, parse_data(input_format, content))>>)
  ELSE Parsed(Pair(None, Error("Unsupported input format", input_format)), <<>>)

\* ------------------------------------------------------------- generators
\* str(value) if value is not None else ""
Str(value) ==
  IF value.k = "None" THEN ""
  ELSE IF value.k \in {"scalar", "int", "float"} THEN value.s
  ELSE value.k

\* a DataFrame cell as to_csv / to_html / to_excel write it: NaN is empty
CellText(value) == IF value.k = "nan" THEN "" ELSE Str(value)

Table(frame) ==
  [header |-> frame.columns,
   rows |-> [i \in DOMAIN frame.rows |->
               [j \in DOMAIN frame.rows[i] |-> CellText(frame.rows[i][j])]]]

Output(content, mime_type, extension) ==
  [ok |-> TRUE, content |-> content, mime_type |-> mime_type,
   extension |-> extension, exc |-> ""]

NoContent == [k |-> "None"]

OutputRaises(e) ==
  [ok |-> FALSE, content |-> NoContent, mime_type |-> "", extension |-> "", exc |-> e]

generate_json_output(data) ==
  Output([k |-> "json", value |-> data], "application/json", ".json")

generate_csv_output(frame) ==
  Output([k |-> "csv", sep |-> ",", table |-> Table(frame)], "text/csv", ".csv")

generate_tsv_output(frame) ==
  Output([k |-> "csv", sep |-> "\t", table |-> Table(frame)],
         "text/tab-separated-values", ".tsv")

\* record.items() raises on an element that is not a dict
generate_xml_output(data) ==
  IF \E i \in DOMAIN data.items : ~IsDict(data.items[i])
  THEN OutputRaises("AttributeError")
  ELSE Output([k |-> "xml", root |-> "data",
               records |-> [i \in DOMAIN data.items |->
                  [tag |-> <<"record_", i>>,
                   fields |-> [j \in DOMAIN data.items[i].items |->
                                 <<data.items[i].items[j][1],
                                   Str(data.items[i].items[j][2])>>]]]],
              "application/xml", ".xml")

\* yaml.dump writes the keys of a mapping sorted (sort_keys defaults to True).
Rank(key) == CHOOSE i \in DOMAIN KeysSorted : KeysSorted[i] = key

sorted(pairs) ==
  [i \in DOMAIN pairs |->
     pairs[CHOOSE j \in DOMAIN pairs :
             Cardinality({h \in DOMAIN pairs : Rank(pairs[h][1]) <= Rank(pairs[j][1])}) = i]]

Dumped(value) == IF IsDict(value) THEN Dict(sorted(value.items)) ELSE value

generate_yaml_output(data) ==
  Output([k |-> "yaml",
          value |-> IF IsList(data)
                    THEN List([i \in DOMAIN data.items |-> Dumped(data.items[i])])
                    ELSE Dumped(data)],
         "application/x-yaml", ".yaml")

generate_excel_output(frame) ==
  Output([k |-> "xlsx", table |-> Table(frame)],
         "application/vnd.openxmlformats-officedocument.spreadsheetml.sheet", ".xlsx")

generate_html_output(frame) ==
  Output([k |-> "html", table |-> Table(frame)], "text/html", ".html")

OutputFormats == {"Excel", "JSON", "CSV", "TSV", "XML", "YAML", "HTML"}

\* (None, None, None)
NoOutput == Output(NoContent, "", "")

convert_to_output_format(data, frame, output_format) ==
  CASE output_format = "JSON" -> generate_json_output(data)
    [] output_format = "CSV" -> generate_csv_output(frame)
    [] output_format = "TSV" -> generate_tsv_output(frame)
    [] output_format = "XML" -> generate_xml_output(data)
    [] output_format = "YAML" -> generate_yaml_output(data)
    [] output_format = "Excel" -> generate_excel_output(frame)
    [] output_format = "HTML" -> generate_html_output(frame)
    [] OTHER -> NoOutput

\* ------------------------------------------------- new_converter.py main
\* What the paste branch displays and leaves in data and error.
pasted(p, in_format) ==
  [data |-> p.data, error |-> p.error, calls |-> p.calls,
   shown |-> IF ~IsNone(p.data)
             THEN <<Shown("success", "data parsed successfully!", in_format)>>
             ELSE <<Shown("error", p.error.msg, p.error.exc)>>]

\* The "Paste Data" branch.
paste_text(data_text, in_format) ==
  IF strip(data_text.text) = <<>>
  THEN [data |-> None, error |-> NoError, calls |-> <<>>, shown |-> <<>>]
  ELSE pasted(process_data_with_format(data_text, in_format), in_format)

\* pd.DataFrame(data) raising ends the run, processed_data already stored.
new_store_frame(data, session, frame) ==
  IF frame.ok
  THEN Processed(data, frame.val, TRUE, "",
                 <<Shown("success-box", "Data processed and ready for conversion!", "")>>)
  ELSE Processed(data, session.df, TRUE, frame.exc, <<>>)

\* "Process and validate data"
process_and_validate(data, session) ==
  IF IsNone(data)
  THEN Processed(session.processed_data, session.df, FALSE, "", <<>>)
  ELSE IF is_list_of_objects(data)
  THEN new_store_frame(data, session, DataFrame(data))
  ELSE Processed(session.processed_data, session.df, FALSE, "",
                 <<Shown("error-box", "Data must be a list of objects/dictionaries", "")>>)

NewPreviewCap == 50

Converted(session, raised, button, calls, shown) ==
  [raised |-> raised, button |-> button, generator_calls |-> calls,
   converted_data |-> session.converted_data, mime_type |-> session.mime_type,
   file_extension |-> session.file_extension, shown |-> shown]

\* The Convert button's try block, on what convert_to_output_format did.
convert_clicked(session, out_format, out) ==
  IF ~out.ok
  THEN Converted(session, "", TRUE, <<[format |-> out_format, ok |-> FALSE]>>,
                 <<Shown("error", "Conversion error", out.exc)>>)
  ELSE IF out.content.k # "None"
  THEN [raised |-> "", button |-> TRUE,
        generator_calls |-> <<[format |-> out_format, ok |-> TRUE]>>,
        converted_data |-> out.content, mime_type |-> out.mime_type,
        file_extension |-> out.extension,
        shown |-> <<Shown("success", "Successfully converted to", out_format)>>]
  ELSE Converted(session, "", TRUE, <<>>,
                 <<Shown("error", "Error converting to", out_format)>>)

\* "Data preview and conversion section": the slider, then the Convert button.
conversion_section(s, out_format, preview, clicked, session) ==
  IF s.raised # "" \/ s.df.k = "None"
  THEN Converted(session, s.raised, FALSE, <<>>, <<>>)
  ELSE IF preview /\ slider_raises(SliderMin, Min(NewPreviewCap, len(s.df)), SliderValue)
  THEN Converted(session, "StreamlitAPIException", FALSE, <<>>, <<>>)
  ELSE IF clicked
  THEN convert_clicked(session, out_format,
                       convert_to_output_format(s.processed_data, s.df, out_format))
  ELSE Converted(session, "", TRUE, <<>>, <<>>)

new_converter_result(in_format, out_format, preview, data_text, p, s, c) ==
  [data_text |-> data_text,
   input_format |-> in_format,
   output_format |-> out_format,
   show_preview |-> preview,
   parser_calls |-> p.calls,
   data |-> p.data,
   error |-> p.error,
   is_valid |-> s.is_valid,
   shown |-> p.shown \o s.shown \o c.shown,
   raised |-> c.raised,
   processed_data |-> s.processed_data,
   df |-> s.df,
   generator_calls |-> c.generator_calls,
   converted_data |-> c.converted_data,
   mime_type |-> c.mime_type,
   file_extension |-> c.file_extension,
   button |-> c.button,
   download_button |-> c.button /\ c.converted_data.k # "None"]

new_converter_processed(in_format, out_format, preview, data_text, clicked, session, p, s) ==
  new_converter_result(in_format, out_format, preview, data_text, p, s,
                       conversion_section(s, out_format, preview, clicked, session))

new_converter_parsed(in_format, out_format, preview, data_text, clicked, session, p) ==
  new_converter_processed(in_format, out_format, preview, data_text, clicked, session, p,
                          process_and_validate(p.data, session))

\* One script run of new_converter.py's main() with the widgets as given and
\* the Convert button clicked or not, from the session given.
new_converter_main(in_format, out_format, preview, data_text, clicked, session) ==
  new_converter_parsed(in_format, out_format, preview, data_text, clicked, session,
                       paste_text(data_text, in_format))

\* ------------------------------------------------------------------ state
VARIABLES
  data_text,         \* the text area: the document it holds
  input_format,      \* new_converter.py: the input format selectbox
  output_format,     \* new_converter.py: the output format selectbox
  show_preview,      \* new_converter.py: the "Show data preview" checkbox
  processed_data,    \* st.session_state.processed_data
  df,                \* st.session_state.df
  excel_data,        \* converter.py: st.session_state.excel_data
  converted_data,    \* new_converter.py: st.session_state.converted_data
  mime_type,         \* new_converter.py: st.session_state.mime_type
  file_extension,    \* new_converter.py: st.session_state.file_extension
  detected_format,   \* converter.py: detected_format of the last run ("" if none)
  detector_parses,   \* the parses the detector attempted in the last run
  parser_calls,      \* the parsers the last run called, in order
  data,              \* main's local data at the end of parsing
  error,             \* main's local error at the end of parsing
  is_valid,          \* whether the last run validated data
  shown,             \* what the last run displayed
  raised,            \* the exception that ended the last run ("" if none)
  generator_calls,   \* the generator calls of the last run
  button,            \* the last run rendered the Generate / Convert button
  download_button,   \* the last run rendered the download button
  runs               \* script runs so far

vars ==
  <<data_text, input_format, output_format, show_preview, processed_data, df,
    excel_data, converted_data, mime_type, file_extension, detected_format,
    detector_parses, parser_calls, data, error, is_valid, shown, raised,
    generator_calls, button, download_button, runs>>

MaxRuns == 3

Init ==
  /\ data_text = EmptyDocument
  /\ input_format = "JSON"
  /\ output_format = "Excel"
  /\ show_preview = TRUE
  /\ processed_data = None
  /\ df = NoFrame
  /\ excel_data = NoExcel
  /\ converted_data = NoContent
  /\ mime_type = ""
  /\ file_extension = ""
  /\ detected_format = ""
  /\ detector_parses = <<>>
  /\ parser_calls = <<>>
  /\ data = None
  /\ error = NoError
  /\ is_valid = FALSE
  /\ shown = <<>>
  /\ raised = ""
  /\ generator_calls = <<>>
  /\ button = FALSE
  /\ download_button = FALSE
  /\ runs = 0

\* --------------------------------------------------- converter.py actions
ConverterRun(text, clicked) ==
  \E m \in {converter_main(text, clicked,
                           [processed_data |-> processed_data, df |-> df,
                            excel_data |-> excel_data])} :
     /\ runs < MaxRuns
     /\ runs' = runs + 1
     /\ data_text' = m.data_text
     /\ detected_format' = m.detected_format
     /\ detector_parses' = m.detector_parses
     /\ parser_calls' = m.parser_calls
     /\ data' = m.data
     /\ error' = m.error
     /\ is_valid' = m.is_valid
     /\ shown' = m.shown
     /\ raised' = m.raised
     /\ processed_data' = m.processed_data
     /\ df' = m.df
     /\ excel_data' = m.excel_data
     /\ button' = m.button
     /\ download_button' = m.download_button
     /\ UNCHANGED <<input_format, output_format, show_preview, converted_data,
                    mime_type, file_extension, generator_calls>>

\* The user pastes a text into the text area.
PasteData == \E text \in Documents : text # data_text /\ ConverterRun(text, FALSE)

\* The user clicks "Generate Excel File".
GenerateExcel == button /\ ConverterRun(data_text, TRUE)

NextConverter == PasteData \/ GenerateExcel

SpecConverter == Init /\ [][NextConverter]_vars

\* ----------------------------------------------- new_converter.py actions
NewConverterRun(in_format, out_format, preview, text, clicked) ==
  \E m \in {new_converter_main(in_format, out_format, preview, text, clicked,
                               [processed_data |-> processed_data, df |-> df,
                                converted_data |-> converted_data,
                                mime_type |-> mime_type,
                                file_extension |-> file_extension])} :
     /\ runs < MaxRuns
     /\ runs' = runs + 1
     /\ data_text' = m.data_text
     /\ input_format' = m.input_format
     /\ output_format' = m.output_format
     /\ show_preview' = m.show_preview
     /\ parser_calls' = m.parser_calls
     /\ data' = m.data
     /\ error' = m.error
     /\ is_valid' = m.is_valid
     /\ shown' = m.shown
     /\ raised' = m.raised
     /\ processed_data' = m.processed_data
     /\ df' = m.df
     /\ generator_calls' = m.generator_calls
     /\ converted_data' = m.converted_data
     /\ mime_type' = m.mime_type
     /\ file_extension' = m.file_extension
     /\ button' = m.button
     /\ download_button' = m.download_button
     /\ UNCHANGED <<excel_data, detected_format, detector_parses>>

SelectInputFormat ==
  \E f \in InputFormats :
    f # input_format /\ NewConverterRun(f, output_format, show_preview, data_text, FALSE)

SelectOutputFormat ==
  \E f \in OutputFormats :
    f # output_format /\ NewConverterRun(input_format, f, show_preview, data_text, FALSE)

ToggleShowPreview ==
  \E preview \in {~show_preview} :
    NewConverterRun(input_format, output_format, preview, data_text, FALSE)

PasteText ==
  \E text \in Documents :
    text # data_text /\ NewConverterRun(input_format, output_format, show_preview, text, FALSE)

\* The user clicks "Convert to <output_format>".
Convert ==
  button /\ NewConverterRun(input_format, output_format, show_preview, data_text, TRUE)

NextNewConverter ==
  SelectInputFormat \/ SelectOutputFormat \/ ToggleShowPreview \/ PasteText \/ Convert

SpecNewConverter == Init /\ [][NextNewConverter]_vars


\* ------------------------------------------------------------------ claims
\* The text area holds something to parse.
HasText == strip(data_text.text) # <<>>

\* The errors st.error displayed in the last run.
ErrorsShown ==
  {Error(shown[i].msg, shown[i].arg) : i \in {j \in DOMAIN shown : shown[j].st = "error"}}

\* The message of the validation failure the last run displayed, if any.
BoxesShown == {shown[i].msg : i \in {j \in DOMAIN shown : shown[j].st = "error-box"}}

\* C1: in new_converter.py a run with text to parse calls the parser of the
\* selected input format and no other, runs no detection, and when that
\* parser fails the run's error is that parser's error, which is displayed.
C1_OnlyTheSelectedParser ==
  HasText =>
    /\ Len(parser_calls) = 1
    /\ parser_calls[1].format = input_format
    /\ detected_format = "" /\ detector_parses = <<>>
    /\ IsNone(data) = IsNone(parse_data(input_format, data_text).data)
    /\ IsNone(data) =>
         /\ error = parse_data(input_format, data_text).error
         /\ ErrorsShown = {error}

\* C1: the selected parser failed on a text another parser accepts.
C1_Witness ==
  /\ HasText
  /\ input_format = "JSON"
  /\ IsNone(data)
  /\ ~IsNone(parse_data("CSV", data_text).data)
  /\ validate_data(parse_data("CSV", data_text).data).is_valid

\* The first format, at or after the i-th of the fixed order, whose parser
\* returns something for the text (0 if none does).
FixedOrder == <<"JSON", "CSV", "TSV", "XML", "YAML">>

Succeeds(format) == ~IsNone(parse_file(format, data_text).data)

Validates(format) ==
  Succeeds(format) /\ validate_data(parse_file(format, data_text).data).is_valid

FirstSucceeding ==
  IF \E i \in 1..5 : Succeeds(FixedOrder[i])
  THEN CHOOSE i \in 1..5 :
         Succeeds(FixedOrder[i]) /\ \A j \in 1..(i - 1) : ~Succeeds(FixedOrder[j])
  ELSE 0

FirstValidating ==
  IF \E i \in 1..5 : Validates(FixedOrder[i])
  THEN CHOOSE i \in 1..5 :
         Validates(FixedOrder[i]) /\ \A j \in 1..(i - 1) : ~Validates(FixedOrder[j])
  ELSE 0

\* C2 as stated: after Unknown the run ends with the result of the first
\* parser, in the order JSON, CSV, TSV, XML, YAML, that succeeds and validates.
C2_FirstValidatingParserWins ==
  (HasText /\ detected_format = "Unknown" /\ FirstValidating > 0) =>
    /\ ~IsNone(data)
    /\ is_valid
    /\ parser_calls[Len(parser_calls)].format = FixedOrder[FirstValidating]

\* C2 amended: after Unknown the parsers are called in the order JSON, CSV,
\* TSV, XML, YAML up to the first that returns something, and the run's data
\* is what that parser returned, validated or not; if none returns anything
\* all five were called.
C2_FirstSucceedingParserWins ==
  (HasText /\ detected_format = "Unknown") =>
    /\ Len(parser_calls) = (IF FirstSucceeding = 0 THEN 5 ELSE FirstSucceeding)
    /\ \A i \in DOMAIN parser_calls : parser_calls[i].format = FixedOrder[i]
    /\ IsNone(data) = (FirstSucceeding = 0)
    /\ ~IsNone(data) =>
         /\ data.k = parse_file(FixedOrder[FirstSucceeding], data_text).data.k
         /\ is_valid = Validates(FixedOrder[FirstSucceeding])

\* C2: the first parser to return something fails validation and a later
\* parser would have validated.
C2_Witness ==
  /\ HasText
  /\ detected_format = "Unknown"
  /\ FirstSucceeding = 2
  /\ FirstValidating = 5
  /\ ~is_valid

\* C3: a parser that returned something is the last parser the run calls;
\* when validation rejects what it returned, the run ends invalid with the
\* validation message displayed.
C3_NoParserAfterSuccess ==
  /\ \A i \in DOMAIN parser_calls :
       ~IsNone(parser_calls[i].data) => i = Len(parser_calls)
  /\ (~IsNone(data) /\ ~validate_data(data).is_valid) =>
       /\ ~is_valid
       /\ BoxesShown = {validate_data(data).message}

\* C3: the JSON parser returned a value validation rejects, and the CSV
\* parser, never called, returns something too.
C3_Witness ==
  /\ HasText
  /\ detected_format = "Unknown"
  /\ Len(parser_calls) = 1
  /\ ~IsNone(data)
  /\ ~is_valid
  /\ Succeeds("CSV")

\* C4 as stated: when every parser of the fallback failed, the error the run
\* reports carries the error of each of the five attempts.
C4_EveryErrorReported ==
  (HasText /\ detected_format = "Unknown" /\ IsNone(data)) =>
    \A i \in DOMAIN parser_calls : parser_calls[i].error \in ErrorsShown

\* C5 as stated: a generator runs only in a run that parsed and validated
\* the record set itself.
C5_GeneratorOnlyOnOwnRecordSet ==
  generator_calls # <<>> => (~IsNone(data) /\ is_valid)

\* The condition of validation a value fails.
FailedCondition(value) ==
  IF ~IsList(value) THEN "not a sequence"
  ELSE IF Len(value.items) = 0 THEN "empty"
  ELSE IF ~IsDict(value.items[1]) THEN "first element is not a record"
  ELSE "none"

\* The values new_converter.py can be asked to validate.
ParsedValues ==
  {parse_data(f, d).data : f \in InputFormats, d \in Documents \ {EmptyDocument}}

\* C6 as stated: validation accepts exactly the non-empty lists whose first
\* element is a record, and the message of a rejection names the condition
\* that failed: no value failing another condition gets the same message.
C6_RejectionNamesCondition ==
  (HasText /\ ~IsNone(data)) =>
    /\ is_valid = (FailedCondition(data) = "none")
    /\ ~is_valid =>
         \A value \in ParsedValues :
           (/\ ~IsNone(value)
            /\ FailedCondition(value) # "none"
            /\ process_and_validate(value, [processed_data |-> None, df |-> NoFrame]).shown
                 = <<Shown("error-box", CHOOSE m \in BoxesShown : TRUE, "")>>)
             => FailedCondition(value) = FailedCondition(data)

\* C7 as stated: for a record set that passed validation every output
\* format's generator returns an output.
C7_GenerationNeverFails ==
  (HasText /\ is_valid) =>
    \A f \in OutputFormats :
      /\ convert_to_output_format(data, df, f).ok
      /\ convert_to_output_format(data, df, f).content.k # "None"

\* The steps of the detector that match the stripped text.
JsonMatches == JsonSurface(strip(data_text.text)) /\ data_text.json.ok

XmlMatches == XmlSurface(strip(data_text.text)) /\ data_text.xml.ok

YamlMatches == YamlSurface(strip(data_text.text)) /\ data_text.yaml.ok

\* C8: the detected tag is that of the first matching step in the order
\* JSON, XML, YAML, and CSV or TSV is the tag only when none of the three
\* matches.
C8_FirstMatchingStepWins ==
  HasText =>
    /\ (detected_format = "JSON") = JsonMatches
    /\ (detected_format = "XML") = (~JsonMatches /\ XmlMatches)
    /\ (detected_format = "YAML") = (~JsonMatches /\ ~XmlMatches /\ YamlMatches)
    /\ detected_format \in {"CSV", "TSV"} => (~JsonMatches /\ ~XmlMatches /\ ~YamlMatches)

\* C8: a text tagged YAML whose first line has a comma and more lines follow.
C8_Witness ==
  /\ HasText
  /\ detected_format = "YAML"
  /\ line_count(strip(data_text.text)) > 1
  /\ count(first_line(strip(data_text.text)), ",") > 0

Tabs == count(first_line(strip(data_text.text)), "\t")

Commas == count(first_line(strip(data_text.text)), ",")

\* C9: when no earlier step matches, text of more than one line is TSV if
\* its first line has more tabs than commas and a tab, else CSV if it has a
\* comma, else Unknown; one-line text is never CSV or TSV; the two texts of
\* the scenario are CSV and TSV.
C9_DelimiterStep ==
  HasText =>
    /\ (~JsonMatches /\ ~XmlMatches /\ ~YamlMatches) =>
         detected_format =
           (IF line_count(strip(data_text.text)) > 1 /\ Tabs > Commas /\ Tabs > 0
            THEN "TSV"
            ELSE IF line_count(strip(data_text.text)) > 1 /\ Commas > 0
            THEN "CSV"
            ELSE "Unknown")
    /\ line_count(strip(data_text.text)) = 1 => detected_format \notin {"CSV", "TSV"}
    /\ data_text.text = <<"a", ",", "b", ",", "c", "\n", "1", ",", "2", ",", "3">>
         => detected_format = "CSV"
    /\ data_text.text = <<"a", "\t", "b", "\t", "c", "\n", "1", "\t", "2", "\t", "3">>
         => detected_format = "TSV"

\* C9: a first line with as many tabs as commas is tagged CSV.
C9_Witness ==
  /\ HasText
  /\ Tabs = Commas
  /\ Tabs > 0
  /\ detected_format = "CSV"

\* C10 as stated: a tag other than Unknown was parsed successfully in that
\* format by the detector.
C10_EveryTagParsed ==
  (HasText /\ detected_format # "Unknown") =>
    \E i \in DOMAIN detector_parses :
      detector_parses[i] = [format |-> detected_format, ok |-> TRUE]

\* C10 amended: a tag JSON, XML or YAML was parsed successfully in that
\* format by the detector, as the last parse it attempted; for a tag CSV or
\* TSV the detector attempted no parse in that format.
C10_StructuredTagsParsed ==
  HasText =>
    /\ detected_format \in {"JSON", "XML", "YAML"} =>
         /\ detector_parses # <<>>
         /\ detector_parses[Len(detector_parses)] = [format |-> detected_format, ok |-> TRUE]
    /\ detected_format \in {"CSV", "TSV"} =>
         \A i \in DOMAIN detector_parses : detector_parses[i].format \notin {"CSV", "TSV"}

\* C10: a text tagged CSV that the CSV parser rejects.
C10_Witness ==
  /\ HasText
  /\ detected_format = "CSV"
  /\ parser_calls[1].format = "CSV"
  /\ IsNone(data)


DetectorTags == {"JSON", "XML", "YAML", "CSV", "TSV", "Unknown"}

\* The tag the steps after the step of a format give for the pasted text.
TagAfter(format) ==
  IF format = "JSON" /\ XmlMatches THEN "XML"
  ELSE IF format \in {"JSON", "XML"} /\ YamlMatches THEN "YAML"
  ELSE DelimiterStep(strip(data_text.text))

\* C11: the detector returns one of the six tags for every text and raises
\* nothing; a parse attempt of its that failed is absorbed, the tag being
\* what the steps after it give, and Unknown when no step matches.
C11_DetectorTotal ==
  /\ \A d \in Documents : detect_format_from_content(d).tag \in DetectorTags
  /\ HasText =>
       /\ detected_format \in DetectorTags
       /\ \A i \in DOMAIN detector_parses :
            ~detector_parses[i].ok =>
              /\ detected_format # detector_parses[i].format
              /\ detected_format = TagAfter(detector_parses[i].format)
       /\ (/\ ~JsonMatches /\ ~XmlMatches /\ ~YamlMatches
           /\ DelimiterStep(strip(data_text.text)) = "Unknown")
            => detected_format = "Unknown"

\* C11: a parse attempt of the detector failed and a later step gave the tag.
C11_Witness ==
  /\ HasText
  /\ \E i \in DOMAIN detector_parses : ~detector_parses[i].ok
  /\ detected_format = "CSV"

\* A list all of whose elements are dicts.
IsListOfDicts(value) ==
  IsList(value) /\ \A i \in DOMAIN value.items : IsDict(value.items[i])

\* C12 as stated: the JSON parser returns an array of objects as it is and
\* a bare object as a list of that one object, and fails, returning no data
\* and an error, on malformed JSON and on every other decoded value.
C12_JsonParserShapes ==
  \A i \in DOMAIN parser_calls :
    parser_calls[i].format = "JSON" =>
      IF json_loads(data_text).ok /\ IsListOfDicts(json_loads(data_text).val)
      THEN /\ IsList(parser_calls[i].data)
           /\ parser_calls[i].data.items = json_loads(data_text).val.items
      ELSE IF json_loads(data_text).ok /\ IsDict(json_loads(data_text).val)
      THEN /\ IsList(parser_calls[i].data)
           /\ Len(parser_calls[i].data.items) = 1
           /\ IsDict(parser_calls[i].data.items[1])
           /\ parser_calls[i].data.items[1].items = json_loads(data_text).val.items
      ELSE /\ IsNone(parser_calls[i].data)
           /\ parser_calls[i].error # NoError

\* The failures the last run displayed: parser errors and validation boxes.
FailuresShown ==
  {shown[i].msg : i \in {j \in DOMAIN shown : shown[j].st \in {"error", "error-box"}}}

RECURSIVE lines_after_first(_)
lines_after_first(s) ==
  IF \A i \in DOMAIN s : s[i] # "\n" THEN <<>>
  ELSE LET rest == SubSeq(s, Len(first_line(s)) + 2, Len(s))
       IN <<first_line(rest)>> \o lines_after_first(rest)

\* Some data row has more fields than the header row.
Ragged(s, delimiter) ==
  \E i \in DOMAIN lines_after_first(s) :
    count(lines_after_first(s)[i], delimiter) > count(first_line(s), delimiter)

DelimiterOf(format) == IF format = "TSV" THEN "\t" ELSE ","

\* C14 as stated: the CSV/TSV parser fails, with its parse error, on every
\* text in which a data row has more fields than the header row.
C14_RaggedRejected ==
  \A i \in DOMAIN parser_calls :
    (/\ parser_calls[i].format \in {"CSV", "TSV"}
     /\ Ragged(data_text.text, DelimiterOf(parser_calls[i].format)))
      => /\ IsNone(parser_calls[i].data)
         /\ parser_calls[i].error.msg = "Error parsing CSV"

\* The text of an element as a field value: missing text is "".
TextOf(element) == IF element.text = NoText THEN "" ELSE element.text[1]

\* The root of the pasted text when it is well-formed XML with children.
XmlRoot == ET_fromstring(data_text).val

XmlCalls ==
  {i \in DOMAIN parser_calls :
     /\ parser_calls[i].format = "XML"
     /\ ET_fromstring(data_text).ok
     /\ Len(XmlRoot.children) > 0}

\* Each child of the root gave one record, in document order, and a child
\* without children gave the single field of its own tag and text.
OneRecordPerChild(records) ==
  /\ Len(records) = Len(XmlRoot.children)
  /\ \A c \in DOMAIN records :
       /\ IsDict(records[c])
       /\ XmlRoot.children[c].children = <<>> =>
            records[c].items =
              <<<<XmlRoot.children[c].tag, Scalar(TextOf(XmlRoot.children[c]))>>>>

\* C15 as stated: one record per child of the root, in document order, with
\* one field per grandchild, tag -> text, missing text being "".
C15_FieldPerGrandchild ==
  \A i \in XmlCalls :
    /\ OneRecordPerChild(parser_calls[i].data.items)
    /\ \A c \in DOMAIN XmlRoot.children :
         XmlRoot.children[c].children # <<>> =>
           parser_calls[i].data.items[c].items =
             [g \in DOMAIN XmlRoot.children[c].children |->
                <<XmlRoot.children[c].children[g].tag,
                  Scalar(TextOf(XmlRoot.children[c].children[g]))>>]

\* The fields are those of the distinct tags of the elements, in the order
\* of their first occurrence, each with the text of the last element of
\* that tag.
FieldPerTag(fields, elements) ==
  /\ {fields[j][1] : j \in DOMAIN fields} = {elements[g].tag : g \in DOMAIN elements}
  /\ Len(fields) = Cardinality({elements[g].tag : g \in DOMAIN elements})
  /\ \A j \in DOMAIN fields :
       \E g \in DOMAIN elements :
         /\ elements[g].tag = fields[j][1]
         /\ \A h \in DOMAIN elements : elements[h].tag = fields[j][1] => h <= g
         /\ fields[j][2] = Scalar(TextOf(elements[g]))
  /\ \A j, l \in DOMAIN fields :
       j < l =>
         \E g \in DOMAIN elements :
           /\ elements[g].tag = fields[j][1]
           /\ \A h \in DOMAIN elements : elements[h].tag = fields[l][1] => g < h

\* C15 amended: one record per child of the root, in document order; a child
\* with children gives one field per distinct grandchild tag, holding the
\* text of the last grandchild of that tag; a child without children gives
\* the field of its own tag and text; missing text is "", and both XML
\* parsers give the same records.  The document of the scenario parses to
\* the one record name John, age 30.
C15_FieldPerGrandchildTag ==
  /\ \A d \in Documents :
       /\ parse_xml_file(d).data.k = parse_xml_data(d).data.k
       /\ IsList(parse_xml_data(d).data) =>
            parse_xml_file(d).data.items = parse_xml_data(d).data.items
  /\ \A i \in XmlCalls :
       /\ OneRecordPerChild(parser_calls[i].data.items)
       /\ \A c \in DOMAIN XmlRoot.children :
            XmlRoot.children[c].children # <<>> =>
              FieldPerTag(parser_calls[i].data.items[c].items,
                          XmlRoot.children[c].children)
       /\ XmlRoot.tag = "data" =>
            parser_calls[i].data.items =
              <<Dict(<<<<"name", Scalar("John")>>, <<"age", Scalar("30")>>>>)>>

\* C15: XML parsed from a document in which two grandchildren share a tag,
\* and a child has neither children nor text.
C15_Witness ==
  /\ XmlCalls # {}
  /\ \E c \in DOMAIN XmlRoot.children :
       Len(XmlRoot.children[c].children) > Len(parser_calls[1].data.items[c].items)
  /\ \E c \in DOMAIN XmlRoot.children :
       XmlRoot.children[c].children = <<>> /\ XmlRoot.children[c].text = NoText

\* The field of a record for a column as text, "" when the record lacks it
\* or holds no value in it.
FieldText(record, column) ==
  IF \E j \in DOMAIN record.items : record.items[j][1] = column
  THEN CellText(record.items[CHOOSE j \in DOMAIN record.items : record.items[j][1] = column][2])
  ELSE ""

\* C16 as stated: for a record set of records, all with their own field
\* sets, the CSV generator returns an output whose header is the union of
\* the field names in first-seen order and whose rows hold, for each record,
\* the value of each column or an empty field; [{"a":1,"b":2},{"a":3}]
\* gives the header a,b and the rows 1,2 and 3,(empty).
C16_CsvOfUnevenRecords ==
  (HasText /\ is_valid /\ IsListOfDicts(data)) =>
    /\ DataFrame(data).ok
    /\ generate_csv_output(DataFrame(data).val).ok
    /\ generate_csv_output(DataFrame(data).val).content.table.header
         = ColumnsOf(data.items, <<>>)
    /\ generate_csv_output(DataFrame(data).val).content.table.rows
         = [i \in DOMAIN data.items |->
              [j \in DOMAIN ColumnsOf(data.items, <<>>) |->
                 FieldText(data.items[i], ColumnsOf(data.items, <<>>)[j])]]
    /\ data.items = <<Dict(<<<<"a", Integer("1")>>, <<"b", Integer("2")>>>>),
                      Dict(<<<<"a", Integer("3")>>>>)>>
         => generate_csv_output(DataFrame(data).val).content.table
              = [header |-> <<"a", "b">>, rows |-> <<<<"1", "2">>, <<"3", "">>>>]

\* C17 as stated: the JSON and the YAML generator write the fields of every
\* record in the order the record holds them.
C17_OwnFieldOrder ==
  (HasText /\ is_valid /\ IsListOfDicts(data)) =>
    \A i \in DOMAIN data.items :
      /\ generate_json_output(data).content.value.items[i].items = data.items[i].items
      /\ generate_yaml_output(data).content.value.items[i].items = data.items[i].items

\* Tags that are no format of either kind.
UnrecognizedTags == {"PDF", "TXT"}

\* C18 as stated: for a tag that is not recognized, the input side returns
\* no data and an error without calling a parser, and the output side ends
\* in an error, not in an empty result, without calling a generator.
C18_UnrecognizedTagIsError ==
  (HasText /\ is_valid) =>
    \A tag \in UnrecognizedTags :
      /\ IsNone(process_data_with_format(data_text, tag).data)
      /\ process_data_with_format(data_text, tag).error.msg = "Unsupported input format"
      /\ process_data_with_format(data_text, tag).calls = <<>>
      /\ ~convert_to_output_format(processed_data, df, tag).ok

C20_DownloadIsCurrent ==
  download_button =>
    /\ convert_to_output_format(processed_data, df, output_format).ok
    /\ converted_data.k
         = convert_to_output_format(processed_data, df, output_format).content.k
    /\ converted_data
         = convert_to_output_format(processed_data, df, output_format).content
    /\ mime_type = convert_to_output_format(processed_data, df, output_format).mime_type
    /\ file_extension
         = convert_to_output_format(processed_data, df, output_format).extension
====
